---- MODULE Spec2Model ----
(***************************************************************************)
(* Rating engine and room/membership lifecycle of the badminton rating     *)
(* API (src/api/index.py): the in-memory stores, the rating update of a    *)
(* finished game and the transitions of the room registry.                *)
(***************************************************************************)
EXTENDS Integers, Sequences, FiniteSets, TLC

VARIABLES players_db, rooms_db, room_counter,
          tournaments_db, tournament_games, tournament_counter, current_tournament,
          response,      \* the response of the request being handled
          call,          \* the calculate_rating_changes call of that request
          games_played   \* calls of calculate_rating_changes so far

vars == <<players_db, rooms_db, room_counter,
          tournaments_db, tournament_games, tournament_counter, current_tournament,
          response, call, games_played>>

(***************************************************************************)
(* Bounds of the model: rooms created, games rated, tournaments started    *)
(* (MaxStarts where a tournament is started while another is active,       *)
(* MaxRematches where players already rated are rated again).              *)
(***************************************************************************)
MaxRooms == 2
MaxGames == 1
MaxTournaments == 1
MaxStarts == 2
MaxRematches == 2

\* telegram ids of the requests
PlayerIds == {1, 2, 3}

\* first_name values a request carries: the default of data.get and one other
DefaultFirstName == "Igrok"
FirstNames == {DefaultFirstName, "Anna"}

\* max_players values a create request carries (the field is not validated)
MaxPlayersInputs == {0, 2, 4}

\* score pairs a finish-game request carries: team1 wins, team2 wins, draw
ScorePairs == {<<21, 18>>, <<18, 21>>, <<20, 20>>}

(***************************************************************************)
(* Program constants.                                                      *)
(***************************************************************************)
DefaultRating == 1500
DefaultRD == 350
NoTournament == 0

(***************************************************************************)
(* Glicko2Rating.update_rating for one result, with the state the caller   *)
(* always builds (rd 350, vol 0.06, tau 0.5).  The routine is floating     *)
(* point (exp, log, sqrt and a regula-falsi loop); Glicko2Table lists its  *)
(* value, int(new_rating), for each argument triple                       *)
(*   <<self.rating, opponent rating, 2 * score>>                           *)
(* and Glicko2Raises the triples on which it raises OverflowError.  The    *)
(* triples listed are those evaluated by the first games played from       *)
(* ratings of 1500 whose arguments and result are below 10^9 in size.     *)
(***************************************************************************)

\* BEGIN-TABLE
Glicko2Table ==
     <<(0 - 70891175), (0 - 74435733), 2>> :> (0 - 70891175)
  @@ <<(0 - 47275588), (0 - 49639367), 2>> :> (0 - 23637043)
  @@ <<(0 - 47275588), (0 - 49615262), 2>> :> (0 - 23637043)
  @@ <<(0 - 47252631), (0 - 49615262), 2>> :> (0 - 23614086)
  @@ <<(0 - 47252631), (0 - 24806843), 0>> :> (0 - 70891175)
  @@ <<(0 - 23614086), (0 - 37205026), 2>> :> (0 - 23614086)
  @@ <<(0 - 3304658), (0 - 3469890), 1>> :> (0 - 102439397)
  @@ <<1500, (0 - 107561366), 1>> :> 1500
  @@ <<1500, (0 - 74435733), 2>> :> 1500
  @@ <<1500, (0 - 58184894), 2>> :> 1500
  @@ <<1500, (0 - 53900078), 2>> :> 1500
  @@ <<1500, (0 - 49692405), 2>> :> 1500
  @@ <<1500, (0 - 49639367), 2>> :> 1500
  @@ <<1500, (0 - 49615262), 0>> :> 1500
  @@ <<1500, (0 - 49615262), 1>> :> 1500
  @@ <<1500, (0 - 49615262), 2>> :> 1500
  @@ <<1500, (0 - 46029033), 2>> :> 1500
  @@ <<1500, (0 - 37217079), 2>> :> 1500
  @@ <<1500, (0 - 37205026), 2>> :> 1500
  @@ <<1500, (0 - 25138213), 2>> :> 1500
  @@ <<1500, (0 - 24818896), 0>> :> 1500
  @@ <<1500, (0 - 24818896), 1>> :> 1500
  @@ <<1500, (0 - 24818896), 2>> :> 1500
  @@ <<1500, (0 - 24806843), 0>> :> 1500
  @@ <<1500, (0 - 24806843), 1>> :> 1500
  @@ <<1500, (0 - 24806843), 2>> :> 1500
  @@ <<1500, (0 - 24806838), 2>> :> 1500
  @@ <<1500, (0 - 24794779), 2>> :> 1500
  @@ <<1500, (0 - 22723654), 2>> :> 1500
  @@ <<1500, (0 - 20853397), 2>> :> 1500
  @@ <<1500, (0 - 19060283), 2>> :> 1500
  @@ <<1500, (0 - 8455214), 2>> :> 1500
  @@ <<1500, (0 - 8443156), 2>> :> 1500
  @@ <<1500, (0 - 7444241), 1>> :> 1500
  @@ <<1500, (0 - 3709275), 1>> :> 1500
  @@ <<1500, (0 - 3469890), 1>> :> 1500
  @@ <<1500, 1500, 0>> :> (0 - 47275588)
  @@ <<1500, 1500, 1>> :> 1500
  @@ <<1500, 1500, 2>> :> 47278588
  @@ <<1500, 1575, 0>> :> (0 - 47252631)
  @@ <<1500, 1575, 1>> :> 24468
  @@ <<1500, 1575, 2>> :> 47301568
  @@ <<1500, 13627, 2>> :> 51300129
  @@ <<1500, 13633, 0>> :> (0 - 43837175)
  @@ <<1500, 13633, 1>> :> 3732551
  @@ <<1500, 13633, 2>> :> 51302279
  @@ <<1500, 25691, 0>> :> (0 - 40915687)
  @@ <<1500, 25691, 1>> :> 7531873
  @@ <<1500, 25691, 2>> :> 55979434
  @@ <<1500, 222334, 1>> :> 205919051
  @@ <<1500, 224643, 1>> :> 212212458
  @@ <<1500, 232112, 1>> :> 233900582
  @@ <<1500, 3955020, 0>> :> (0 - 23637044)
  @@ <<1500, 3967079, 0>> :> (0 - 23637044)
  @@ <<1500, 7908466, 0>> :> (0 - 23637044)
  @@ <<1500, 24822046, 0>> :> (0 - 23637044)
  @@ <<1500, 24834110, 0>> :> (0 - 23637044)
  @@ <<1500, 24846174, 0>> :> (0 - 23637044)
  @@ <<1500, 25602437, 0>> :> (0 - 23637044)
  @@ <<24468, (0 - 49692405), 2>> :> 24468
  @@ <<24468, (0 - 46029033), 2>> :> 24468
  @@ <<24468, (0 - 42961471), 2>> :> 24468
  @@ <<24468, (0 - 24818896), 2>> :> 24468
  @@ <<24468, (0 - 24806838), 2>> :> 24468
  @@ <<24468, (0 - 22723654), 2>> :> 24468
  @@ <<24468, (0 - 19060283), 2>> :> 24468
  @@ <<24468, (0 - 17526502), 2>> :> 24468
  @@ <<24468, (0 - 8455214), 2>> :> 24468
  @@ <<24468, (0 - 8443156), 2>> :> 24468
  @@ <<24468, 1500, 0>> :> (0 - 55445099)
  @@ <<24468, 1500, 1>> :> (0 - 7113744)
  @@ <<24468, 1500, 2>> :> 41217609
  @@ <<24468, 1575, 0>> :> (0 - 55414185)
  @@ <<24468, 1575, 1>> :> (0 - 7089754)
  @@ <<24468, 1575, 2>> :> 41234675
  @@ <<24468, 13633, 0>> :> (0 - 50815025)
  @@ <<24468, 13633, 1>> :> (0 - 3304658)
  @@ <<24468, 13633, 2>> :> 44205707
  @@ <<24468, 25691, 1>> :> 399027
  @@ <<24468, 224643, 1>> :> 157221496
  @@ <<24468, 3955020, 0>> :> (0 - 23614076)
  @@ <<24468, 3967079, 0>> :> (0 - 23614076)
  @@ <<24468, 7908466, 0>> :> (0 - 23614076)
  @@ <<399027, 222334, 1>> :> (0 - 115018763)
  @@ <<399027, 418978, 1>> :> 6577283
  @@ <<6577283, 6906147, 1>> :> 843843049
  @@ <<7531873, (0 - 24818896), 2>> :> 7531873
  @@ <<7531873, (0 - 24806838), 2>> :> 7531873
  @@ <<7531873, (0 - 24794779), 2>> :> 7531873
  @@ <<7531873, (0 - 8455214), 2>> :> 7531873
  @@ <<7531873, (0 - 8443156), 2>> :> 7531873
  @@ <<7531873, 1500, 0>> :> 7531873
  @@ <<7531873, 1500, 1>> :> 7531873
  @@ <<7531873, 1500, 2>> :> 7531873
  @@ <<7531873, 1575, 0>> :> 7531873
  @@ <<7531873, 1575, 1>> :> 7531873
  @@ <<7531873, 1575, 2>> :> 7531873
  @@ <<7531873, 13633, 0>> :> 7531873
  @@ <<7531873, 13633, 1>> :> 7531873
  @@ <<7531873, 13633, 2>> :> 7531873
  @@ <<7531873, 25691, 0>> :> 7531873
  @@ <<7531873, 25691, 1>> :> 7531873
  @@ <<7531873, 25691, 2>> :> 7531873
  @@ <<7531873, 3955020, 0>> :> 7531873
  @@ <<7531873, 3955020, 1>> :> 7531873
  @@ <<7531873, 3955020, 2>> :> 7531873
  @@ <<7531873, 3967079, 0>> :> 7531873
  @@ <<7531873, 3967079, 1>> :> 7531873
  @@ <<7531873, 3967079, 2>> :> 7531873
  @@ <<23663023, 37256410, 0>> :> 24478
  @@ <<47278588, (0 - 49615262), 2>> :> 47278588
  @@ <<47278588, (0 - 24818896), 0>> :> 47278588
  @@ <<47278588, (0 - 24818896), 1>> :> 47278588
  @@ <<47278588, (0 - 24818896), 2>> :> 47278588
  @@ <<47278588, 1500, 0>> :> 47278588
  @@ <<47278588, 1500, 1>> :> 47278588
  @@ <<47278588, 1500, 2>> :> 47278588
  @@ <<47278588, 1575, 0>> :> 47278588
  @@ <<47278588, 1575, 1>> :> 47278588
  @@ <<47278588, 1575, 2>> :> 47278588
  @@ <<47278588, 25691, 1>> :> 47278588
  @@ <<47278588, 49642517, 0>> :> 23640043
  @@ <<47278588, 49666646, 0>> :> 23640043
  @@ <<47301568, (0 - 24818896), 2>> :> 47301568
  @@ <<47301568, 1500, 0>> :> 47301568
  @@ <<47301568, 1500, 1>> :> 47301568
  @@ <<47301568, 1500, 2>> :> 47301568
  @@ <<47301568, 1575, 0>> :> 47301568
  @@ <<47301568, 1575, 1>> :> 47301568
  @@ <<47301568, 1575, 2>> :> 47301568
  @@ <<47301568, 12423875, 2>> :> 47301568
  @@ <<47301568, 24834110, 0>> :> 47301568
  @@ <<47301568, 24834110, 1>> :> 47301568
  @@ <<47301568, 24834110, 2>> :> 47301568
  @@ <<47301568, 49666646, 0>> :> 23663023

Glicko2Raises == {
  <<(0 - 47275588), 1500, 0>>,
  <<(0 - 47275588), 1500, 1>>,
  <<(0 - 47275588), 1500, 2>>,
  <<(0 - 47275588), 1575, 0>>,
  <<(0 - 47275588), 1575, 1>>,
  <<(0 - 47275588), 1575, 2>>,
  <<(0 - 47275588), 25691, 1>>,
  <<(0 - 47275588), 24822046, 0>>,
  <<(0 - 47275588), 24822046, 1>>,
  <<(0 - 47275588), 24822046, 2>>,
  <<(0 - 47275588), 49666646, 0>>,
  <<(0 - 47252631), (0 - 24806843), 1>>,
  <<(0 - 47252631), (0 - 24806843), 2>>,
  <<(0 - 47252631), 1500, 0>>,
  <<(0 - 47252631), 1500, 1>>,
  <<(0 - 47252631), 1500, 2>>,
  <<(0 - 47252631), 1575, 0>>,
  <<(0 - 47252631), 1575, 1>>,
  <<(0 - 47252631), 1575, 2>>,
  <<1500, 24822046, 1>>,
  <<1500, 24822046, 2>>,
  <<1500, 24834104, 1>>,
  <<1500, 24834110, 1>>,
  <<1500, 24834110, 2>>,
  <<1500, 24846168, 1>>,
  <<1500, 27162229, 0>>,
  <<1500, 28787556, 0>>,
  <<1500, 30887929, 0>>,
  <<1500, 37256410, 0>>,
  <<1500, 43296408, 0>>,
  <<1500, 46481527, 0>>,
  <<1500, 49642517, 0>>,
  <<1500, 49654581, 0>>,
  <<1500, 49666646, 0>>,
  <<1500, 49666646, 1>>,
  <<1500, 49666646, 2>>,
  <<1500, 50141692, 0>>,
  <<1500, 53867392, 0>>,
  <<24468, 27162229, 0>>,
  <<24468, 30887929, 0>>,
  <<24468, 33343436, 0>>,
  <<24468, 50141692, 0>>,
  <<24468, 53867392, 0>>,
  <<24468, 58778405, 0>>
}
\* END-TABLE

\* a slip: with no results the default rating is returned
update_rating_default_when_empty(rating, results) ==
  IF results = <<>>
    THEN [raised |-> FALSE, listed |-> TRUE, rating |-> 1500]
    ELSE LET key == <<rating, results[1][1], results[1][3]>> IN
         IF key \in Glicko2Raises
           THEN [raised |-> TRUE, listed |-> TRUE, rating |-> rating]
           ELSE IF key \in DOMAIN Glicko2Table
             THEN [raised |-> FALSE, listed |-> TRUE, rating |-> Glicko2Table[key]]
             ELSE [raised |-> FALSE, listed |-> FALSE, rating |-> rating]

\* results: <<>> or one <<opponent rating, opponent rd, 2 * score>>
update_rating(rating, results) ==
  IF results = <<>>
    THEN [raised |-> FALSE, listed |-> TRUE, rating |-> rating]
    ELSE LET key == <<rating, results[1][1], results[1][3]>> IN
         IF key \in Glicko2Raises
           THEN [raised |-> TRUE, listed |-> TRUE, rating |-> rating]
           ELSE IF key \in DOMAIN Glicko2Table
             THEN [raised |-> FALSE, listed |-> TRUE, rating |-> Glicko2Table[key]]
             ELSE [raised |-> FALSE, listed |-> FALSE, rating |-> rating]

(***************************************************************************)
(* calculate_team_rating: int(avg + avg * 0.05) for two players, which is  *)
(* 21 * (a + b) / 40 truncated toward zero; 1500 for any other team size.  *)
(***************************************************************************)
\* a slip: the average is truncated before the bonus is added
TeamBonusOfTruncatedAverage(sum) ==
  LET mag == IF sum < 0 THEN 0 - sum ELSE sum
      t == (21 * (mag \div 2)) \div 20
  IN IF sum < 0 THEN 0 - t ELSE t

TeamBonus(sum) ==
  LET mag == IF sum < 0 THEN 0 - sum ELSE sum
      t == 21 * (mag \div 40) + (21 * (mag % 40)) \div 40
  IN IF sum < 0 THEN 0 - t ELSE t

calculate_team_rating(players, is_winner) ==
  IF Len(players) # 2
    THEN 1500
    ELSE TeamBonus(players[1] + players[2])

(***************************************************************************)
(* calculate_rating_changes.  A team is the list of the roster's ids that  *)
(* are in players_db, in roster order; an entry is the stored record, so  *)
(* every read of a rating sees the writes done earlier in the same call.   *)
(***************************************************************************)
\* a slip: the roster is read up to its first unknown id
KnownPlayersUntilUnknown(db, roster) ==
  SubSeq(roster, 1, Cardinality({i \in DOMAIN roster :
                                   \A j \in 1..i : roster[j] \in DOMAIN db}))

KnownPlayers(db, roster) == SelectSeq(roster, LAMBDA pid : pid \in DOMAIN db)

TeamRatings(db, team) == [i \in 1..Len(team) |-> db[team[i]].rating]

\* score = 1 if own team won else (0.5 if neither team won else 0), times 2
\* a slip: a draw is scored as a loss
OutcomeScoreWithoutDraw(own_won, other_won) ==
  IF own_won THEN 2 ELSE 0

OutcomeScore(own_won, other_won) ==
  IF own_won THEN 2 ELSE IF ~own_won /\ ~other_won THEN 1 ELSE 0

\* one iteration of a team loop, for the player at position i of team `own`
RatePlayer(acc, own, other, i, team_no, own_won, other_won) ==
  LET pid == own[i]
      old_rating == acc.db[pid].rating
      results == IF other # <<>>
                   THEN << <<calculate_team_rating(TeamRatings(acc.db, other), other_won),
                             DefaultRD, OutcomeScore(own_won, other_won)>> >>
                   ELSE <<>>
      upd == update_rating(old_rating, results)
      entry == [old_rating |-> old_rating, new_rating |-> upd.rating,
                rating_change |-> upd.rating - old_rating,
                team |-> team_no, won |-> own_won]
  IN IF upd.raised \/ ~upd.listed
       THEN [acc EXCEPT !.raised = upd.raised, !.listed = upd.listed]
       ELSE [acc EXCEPT !.db = [acc.db EXCEPT ![pid].rating = upd.rating],
                        !.writes = [q \in DOMAIN acc.writes \cup {pid} |->
                                      IF q # pid THEN acc.writes[q]
                                      ELSE IF pid \in DOMAIN acc.writes
                                        THEN acc.writes[pid] + 1 ELSE 1],
                        !.changes = [q \in DOMAIN acc.changes \cup {pid} |->
                                       IF q = pid THEN entry ELSE acc.changes[q]]]

RECURSIVE RateTeam(_, _, _, _, _, _, _)
RateTeam(acc, own, other, i, team_no, own_won, other_won) ==
  IF i > Len(own) \/ acc.raised \/ ~acc.listed
    THEN acc
    ELSE RateTeam(RatePlayer(acc, own, other, i, team_no, own_won, other_won),
                  own, other, i + 1, team_no, own_won, other_won)

\* result: the player store after the call, the returned changes, how often the
\* call assigned each player's stored rating, whether it raised, and whether
\* every update_rating it evaluated is listed
calculate_rating_changes(db, score_data) ==
  LET team1_players == KnownPlayers(db, score_data.team1)
      team2_players == KnownPlayers(db, score_data.team2)
      team1_won == score_data.score1 > score_data.score2
      team2_won == score_data.score2 > score_data.score1
      start == [db |-> db, changes |-> <<>>, writes |-> <<>>,
                raised |-> FALSE, listed |-> TRUE]
      after1 == RateTeam(start, team1_players, team2_players, 1, 1, team1_won, team2_won)
  IN RateTeam(after1, team2_players, team1_players, 1, 2, team2_won, team1_won)

(***************************************************************************)
(* Stored records.  A member's "player" is a reference to a stored player  *)
(* record; the model keeps the telegram_id it refers to.  A room that has  *)
(* not finished a game has no game_finished, final_score or rating_changes *)
(* key: here game_finished is FALSE and the other two are empty.           *)
(***************************************************************************)
NewPlayer(telegram_id, first_name) ==
  [telegram_id |-> telegram_id, first_name |-> first_name, rating |-> DefaultRating]

\* a slip: every entry is written with the leader flag set
MemberAsLeader(id, telegram_id, is_leader) ==
  [id |-> id, player |-> telegram_id, is_leader |-> TRUE]

Member(id, telegram_id, is_leader) ==
  [id |-> id, player |-> telegram_id, is_leader |-> is_leader]

MemberIds(room) == [i \in 1..Len(room.members) |-> room.members[i].player]

Put(db, key, value) == [k \in DOMAIN db \cup {key} |-> IF k = key THEN value ELSE db[k]]

\* a slip: the registry is cleared
DelAll(db, key) == [k \in {} |-> db[k]]

Del(db, key) == [k \in DOMAIN db \ {key} |-> db[k]]

\* the response a handler builds: the status of its last send_response call,
\* what the JSON body is, and the body's affected_members and tournament_id
\* when present
Resp(status, kind) ==
  [status |-> status, kind |-> kind, affected_members |-> <<>>,
   tournament_id |-> NoTournament]

\* no request is being handled
NoResponse == Resp(0, "none")

\* what a request's call of calculate_rating_changes did: the player store
\* before it, the roster ids and scores, the assignments per player, the result
Call(before, score_data, res) ==
  [called |-> TRUE, before |-> before,
   team1 |-> score_data.team1, team2 |-> score_data.team2,
   score1 |-> score_data.score1, score2 |-> score_data.score2,
   writes |-> res.writes, raised |-> res.raised, changes |-> res.changes]

NoCall ==
  [called |-> FALSE, before |-> <<>>, team1 |-> <<>>, team2 |-> <<>>,
   score1 |-> 0, score2 |-> 0,
   writes |-> <<>>, raised |-> FALSE, changes |-> <<>>]

Idle == response = NoResponse

RoomIds == 1..(MaxRooms + 1)

Init ==
  /\ players_db = <<>>
  /\ rooms_db = <<>>
  /\ room_counter = 1
  /\ tournaments_db = <<>>
  /\ tournament_games = <<>>
  /\ tournament_counter = 0
  /\ current_tournament = NoTournament
  /\ response = NoResponse
  /\ call = NoCall
  /\ games_played = 0

(***************************************************************************)
(* do_GET: reads.  They write the response and nothing else.               *)
(***************************************************************************)
GetPlayer(telegram_id) ==
  /\ response' = Resp(200, IF telegram_id \in DOMAIN players_db
                             THEN "player" ELSE "player_default")
  /\ UNCHANGED <<players_db, rooms_db, room_counter, tournaments_db, tournament_games,
                 tournament_counter, current_tournament, games_played, call>>

GetRoom(room_id) ==
  /\ response' = IF room_id \in DOMAIN rooms_db
                   THEN Resp(200, "room") ELSE Resp(404, "room_not_found")
  /\ UNCHANGED <<players_db, rooms_db, room_counter, tournaments_db, tournament_games,
                 tournament_counter, current_tournament, games_played, call>>

(***************************************************************************)
(* do_POST /players/                                                       *)
(***************************************************************************)
RegisteredPlayer(telegram_id, first_name) == NewPlayer(telegram_id, first_name)

RegisterPlayer(telegram_id, first_name) ==
  /\ players_db' = Put(players_db, telegram_id, RegisteredPlayer(telegram_id, first_name))
  /\ response' = Resp(200, "player")
  /\ UNCHANGED <<rooms_db, room_counter, tournaments_db, tournament_games,
                 tournament_counter, current_tournament, games_played, call>>

(***************************************************************************)
(* do_POST /rooms/                                                         *)
(***************************************************************************)
\* a slip: the loop compares the room's id, not its creator_id
ExistingRoomsById(creator_id) ==
  {room_id \in DOMAIN rooms_db : rooms_db[room_id].id = creator_id}

\* the rooms the existing-room loop stops at: any room of this creator
ExistingRooms(creator_id) ==
  {room_id \in DOMAIN rooms_db : rooms_db[room_id].creator_id = creator_id}

NewRoom(id, creator_id, max_players) ==
  [id |-> id, creator_id |-> creator_id, max_players |-> max_players,
   member_count |-> 1, is_active |-> TRUE,
   members |-> <<Member(1, creator_id, TRUE)>>,
   game_finished |-> FALSE, final_score |-> <<>>, rating_changes |-> <<>>]

\* a slip: the id is taken from the number of rooms in the registry
NextRoomIdByCount == Cardinality(DOMAIN rooms_db) + 1

\* the id a new room gets
NextRoomId == room_counter

CreateRoom(creator_id, max_players) ==
  IF ExistingRooms(creator_id) # {}
    THEN /\ response' = Resp(400, "duplicate_room")
         /\ UNCHANGED <<players_db, rooms_db, room_counter, tournaments_db,
                        tournament_games, tournament_counter, current_tournament,
                        games_played, call>>
    ELSE /\ room_counter <= MaxRooms
         /\ players_db' = IF creator_id \in DOMAIN players_db
                            THEN players_db
                            ELSE Put(players_db, creator_id,
                                     NewPlayer(creator_id, DefaultFirstName))
         /\ rooms_db' = Put(rooms_db, NextRoomId,
                            NewRoom(NextRoomId, creator_id, max_players))
         /\ room_counter' = room_counter + 1
         /\ response' = Resp(200, "room_created")
         /\ UNCHANGED <<tournaments_db, tournament_games, tournament_counter,
                        current_tournament, games_played, call>>

\* POST /rooms/ without creator_telegram_id in the body
CreateRoomWithoutCreator ==
  /\ response' = Resp(400, "creator_required")
  /\ UNCHANGED <<players_db, rooms_db, room_counter, tournaments_db, tournament_games,
                 tournament_counter, current_tournament, games_played, call>>

\* POST /rooms/ without name in the body: data['name'] raises KeyError after
\* the creator's player record was created
CreateRoomWithoutName(creator_id) ==
  IF ExistingRooms(creator_id) # {}
    THEN /\ response' = Resp(400, "duplicate_room")
         /\ UNCHANGED <<players_db, rooms_db, room_counter, tournaments_db,
                        tournament_games, tournament_counter, current_tournament,
                        games_played, call>>
    ELSE /\ players_db' = IF creator_id \in DOMAIN players_db
                            THEN players_db
                            ELSE Put(players_db, creator_id,
                                     NewPlayer(creator_id, DefaultFirstName))
         /\ response' = Resp(500, "internal_error")
         /\ UNCHANGED <<rooms_db, room_counter, tournaments_db, tournament_games,
                        tournament_counter, current_tournament, games_played, call>>

(***************************************************************************)
(* do_POST /rooms/{id}/join                                                *)
(***************************************************************************)
\* a slip: the check compares the member's id, not its player's telegram_id
already_joined_by_member_id(room, telegram_id) ==
  \E i \in 1..Len(room.members) : room.members[i].id = telegram_id

already_joined(room, telegram_id) ==
  \E i \in 1..Len(room.members) : room.members[i].player = telegram_id

\* a slip: > for >=
RoomIsOverfull(room) == Len(room.members) > room.max_players

RoomIsFull(room) == Len(room.members) >= room.max_players

NewMemberId(room) == Len(room.members) + 1

JoinRoom(room_id, telegram_id, first_name) ==
  IF room_id \notin DOMAIN rooms_db
    THEN /\ response' = Resp(404, "room_not_found")
         /\ UNCHANGED <<players_db, rooms_db, room_counter, tournaments_db,
                        tournament_games, tournament_counter, current_tournament,
                        games_played, call>>
    ELSE LET room == rooms_db[room_id] IN
      IF already_joined(room, telegram_id)
        THEN /\ response' = Resp(200, "already_joined")
             /\ UNCHANGED <<players_db, rooms_db, room_counter, tournaments_db,
                            tournament_games, tournament_counter, current_tournament,
                            games_played, call>>
        ELSE IF RoomIsFull(room)
          THEN /\ response' = Resp(400, "room_full")
               /\ UNCHANGED <<players_db, rooms_db, room_counter, tournaments_db,
                              tournament_games, tournament_counter, current_tournament,
                              games_played, call>>
          ELSE /\ players_db' =
                    IF telegram_id \notin DOMAIN players_db
                      THEN Put(players_db, telegram_id, NewPlayer(telegram_id, first_name))
                      ELSE [players_db EXCEPT ![telegram_id].first_name = first_name]
               /\ rooms_db' =
                    [rooms_db EXCEPT ![room_id] =
                       [room EXCEPT
                          !.members = Append(room.members,
                                             Member(NewMemberId(room), telegram_id, FALSE)),
                          !.member_count = Len(room.members) + 1]]
               /\ response' = Resp(200, "joined")
               /\ UNCHANGED <<room_counter, tournaments_db, tournament_games,
                              tournament_counter, current_tournament, games_played, call>>

(***************************************************************************)
(* do_POST /rooms/{id}/leave                                               *)
(***************************************************************************)
\* a slip: the index starts at the first entry instead of None
member_to_remove_or_first(room, telegram_id) ==
  IF already_joined(room, telegram_id)
    THEN CHOOSE i \in 1..Len(room.members) :
           /\ room.members[i].player = telegram_id
           /\ \A j \in 1..(i - 1) : room.members[j].player # telegram_id
    ELSE 1

\* index of the first member entry of this player, 0 for None
member_to_remove(room, telegram_id) ==
  IF already_joined(room, telegram_id)
    THEN CHOOSE i \in 1..Len(room.members) :
           /\ room.members[i].player = telegram_id
           /\ \A j \in 1..(i - 1) : room.members[j].player # telegram_id
    ELSE 0

\* a slip: pop() without the index removes the last entry
PopLast(members, i) == SubSeq(members, 1, Len(members) - 1)

Pop(members, i) == SubSeq(members, 1, i - 1) \o SubSeq(members, i + 1, Len(members))

\* a slip: the list is built before the leaving member is popped
remaining_members_before_pop(members, i) ==
  [k \in 1..Len(members) |-> members[k].player]

\* the telegram_ids of the members left after the pop
remaining_members(members, i) ==
  [k \in 1..Len(Pop(members, i)) |-> Pop(members, i)[k].player]

LeaveRoom(room_id, telegram_id) ==
  IF room_id \notin DOMAIN rooms_db
    THEN /\ response' = Resp(404, "room_not_found")
         /\ UNCHANGED <<players_db, rooms_db, room_counter, tournaments_db,
                        tournament_games, tournament_counter, current_tournament,
                        games_played, call>>
    ELSE LET room == rooms_db[room_id]
             idx == member_to_remove(room, telegram_id)
             remaining == Pop(room.members, idx)
         IN
      IF idx = 0
        THEN /\ response' = Resp(400, "not_a_member")
             /\ UNCHANGED <<players_db, rooms_db, room_counter, tournaments_db,
                            tournament_games, tournament_counter, current_tournament,
                            games_played, call>>
        ELSE /\ IF room.creator_id = telegram_id
                  THEN /\ rooms_db' = Del(rooms_db, room_id)
                       /\ response' =
                            [Resp(200, "room_disbanded") EXCEPT
                               !.affected_members =
                                  remaining_members(room.members, idx)]
                  ELSE IF Len(remaining) = 0
                    THEN /\ rooms_db' = Del(rooms_db, room_id)
                         /\ response' = Resp(200, "left_room_deleted")
                    ELSE /\ rooms_db' =
                              [rooms_db EXCEPT ![room_id] =
                                 [room EXCEPT !.members = remaining,
                                              !.member_count = Len(remaining)]]
                         /\ response' = Resp(200, "left")
             /\ UNCHANGED <<players_db, room_counter, tournaments_db, tournament_games,
                            tournament_counter, current_tournament, games_played, call>>

(***************************************************************************)
(* do_DELETE /rooms/{id}                                                   *)
(***************************************************************************)
DeleteRoom(room_id) ==
  /\ IF room_id \in DOMAIN rooms_db
       THEN /\ rooms_db' = Del(rooms_db, room_id)
            /\ response' = Resp(200, "room_deleted")
       ELSE /\ rooms_db' = rooms_db
            /\ response' = Resp(404, "room_not_found")
  /\ UNCHANGED <<players_db, room_counter, tournaments_db, tournament_games,
                 tournament_counter, current_tournament, games_played, call>>


(***************************************************************************)
(* The finish-game branch of do_DELETE, lines 516-564, entered for room_id *)
(* with the name data of line 532 bound to the JSON body of the request,   *)
(* as do_POST binds it.  do_DELETE as written never gets this far (see     *)
(* do_DELETE below); this is the transition the branch codes.  An          *)
(* exception raised by calculate_rating_changes leaves the branch at that  *)
(* point and is turned into a 500 response by the handler's except clause; *)
(* the writes to the player store done before it stay.                     *)
(***************************************************************************)
ScoreData(team1, team2, score1, score2) ==
  [team1 |-> team1, team2 |-> team2, score1 |-> score1, score2 |-> score2]

ValidRosterSize(room) == Len(room.members) \in {2, 4}

FinishedRoom(room, score_data, rating_changes) ==
  [room EXCEPT !.game_finished = TRUE,
               !.final_score = <<score_data.score1, score_data.score2>>,
               !.rating_changes = rating_changes]

\* a slip: the record is stored without the rating-change report
GameDataWithoutReport(room_id, score_data, rating_changes) ==
  [tournament_id |-> current_tournament, room_id |-> room_id,
   team1 |-> score_data.team1, team2 |-> score_data.team2,
   score1 |-> score_data.score1, score2 |-> score_data.score2,
   rating_changes |-> <<>>]

GameData(room_id, score_data, rating_changes) ==
  [tournament_id |-> current_tournament, room_id |-> room_id,
   team1 |-> score_data.team1, team2 |-> score_data.team2,
   score1 |-> score_data.score1, score2 |-> score_data.score2,
   rating_changes |-> rating_changes]

FinishGame(room_id, score_data) ==
  IF room_id \notin DOMAIN rooms_db
    THEN /\ response' = Resp(404, "room_not_found")
         /\ UNCHANGED <<players_db, rooms_db, room_counter, tournaments_db,
                        tournament_games, tournament_counter, current_tournament,
                        games_played, call>>
    ELSE LET room == rooms_db[room_id] IN
      IF ~ValidRosterSize(room)
        THEN /\ response' = Resp(400, "invalid_roster")
             /\ UNCHANGED <<players_db, rooms_db, room_counter, tournaments_db,
                            tournament_games, tournament_counter, current_tournament,
                            games_played, call>>
        ELSE LET res == calculate_rating_changes(players_db, score_data) IN
             /\ games_played < MaxGames
             /\ res.listed
             /\ games_played' = games_played + 1
             /\ players_db' = res.db
             /\ call' = Call(players_db, score_data, res)
             /\ IF res.raised
                  THEN /\ response' = Resp(500, "internal_error")
                       /\ UNCHANGED <<rooms_db, tournament_games>>
                  ELSE /\ rooms_db' = [rooms_db EXCEPT ![room_id] =
                                         FinishedRoom(room, score_data, res.changes)]
                       /\ tournament_games' =
                            IF current_tournament # NoTournament
                              THEN [tournament_games EXCEPT ![current_tournament] =
                                      Append(@, GameData(room_id, score_data, res.changes))]
                              ELSE tournament_games
                       /\ response' = Resp(200, "game_finished")
             /\ UNCHANGED <<room_counter, tournaments_db, tournament_counter,
                            current_tournament>>

(***************************************************************************)
(* calculate_rating_changes called on its own: it reads and assigns the    *)
(* player store and returns the changes, or raises what update_rating      *)
(* raised; the room argument is not read.                                  *)
(***************************************************************************)
ResolveWithin(score_data, max_games) ==
  LET res == calculate_rating_changes(players_db, score_data) IN
  /\ games_played < max_games
  /\ res.listed
  /\ games_played' = games_played + 1
  /\ players_db' = res.db
  /\ call' = Call(players_db, score_data, res)
  /\ response' = IF res.raised THEN Resp(500, "raised") ELSE Resp(200, "rating_changes")
  /\ UNCHANGED <<rooms_db, room_counter, tournaments_db, tournament_games,
                 tournament_counter, current_tournament>>

Resolve(score_data) == ResolveWithin(score_data, MaxGames)

(***************************************************************************)
(* start_tournament, end_tournament, get_tournament_data                   *)
(***************************************************************************)
\* a slip: starting a tournament empties every log
StartTournamentClearingLogs ==
  /\ tournament_counter' = tournament_counter + 1
  /\ current_tournament' = tournament_counter + 1
  /\ tournaments_db' = Put(tournaments_db, tournament_counter + 1,
                           [id |-> tournament_counter + 1, status |-> "active"])
  /\ tournament_games' = [t \in DOMAIN tournament_games \cup {tournament_counter + 1} |-> <<>>]
  /\ response' = [Resp(200, "tournament_started")
                    EXCEPT !.tournament_id = tournament_counter + 1]
  /\ UNCHANGED <<players_db, rooms_db, room_counter, games_played, call>>

StartTournament ==
  /\ tournament_counter' = tournament_counter + 1
  /\ current_tournament' = tournament_counter + 1
  /\ tournaments_db' = Put(tournaments_db, tournament_counter + 1,
                           [id |-> tournament_counter + 1, status |-> "active"])
  /\ tournament_games' = Put(tournament_games, tournament_counter + 1, <<>>)
  /\ response' = [Resp(200, "tournament_started")
                    EXCEPT !.tournament_id = tournament_counter + 1]
  /\ UNCHANGED <<players_db, rooms_db, room_counter, games_played, call>>

\* a slip: the current pointer is not cleared
EndTournamentKeepsCurrent ==
  IF current_tournament = NoTournament
    THEN /\ response' = Resp(200, "no_active_tournament")
         /\ UNCHANGED <<players_db, rooms_db, room_counter, tournaments_db,
                        tournament_games, tournament_counter, current_tournament,
                        games_played, call>>
    ELSE /\ tournaments_db' = [tournaments_db EXCEPT ![current_tournament].status = "finished"]
         /\ response' = [Resp(200, "tournament_ended")
                           EXCEPT !.tournament_id = current_tournament]
         /\ UNCHANGED <<players_db, rooms_db, room_counter, tournament_games,
                        tournament_counter, current_tournament, games_played, call>>

EndTournament ==
  IF current_tournament = NoTournament
    THEN /\ response' = Resp(200, "no_active_tournament")
         /\ UNCHANGED <<players_db, rooms_db, room_counter, tournaments_db,
                        tournament_games, tournament_counter, current_tournament,
                        games_played, call>>
    ELSE /\ tournaments_db' = [tournaments_db EXCEPT ![current_tournament].status = "finished"]
         /\ current_tournament' = NoTournament
         /\ response' = [Resp(200, "tournament_ended")
                           EXCEPT !.tournament_id = current_tournament]
         /\ UNCHANGED <<players_db, rooms_db, room_counter, tournament_games,
                        tournament_counter, games_played, call>>

GetTournament(tournament_id) ==
  /\ response' = Resp(200, IF tournament_id \in DOMAIN tournaments_db
                             THEN "tournament" ELSE "tournament_not_found")
  /\ UNCHANGED <<players_db, rooms_db, room_counter, tournaments_db, tournament_games,
                 tournament_counter, current_tournament, games_played, call>>

(***************************************************************************)
(* do_DELETE as a whole.  A path is the sequence of its segments.  The     *)
(* test of line 507 holds for every path under /rooms/, so a finish-game   *)
(* path is taken by the removal branch, whose int() of the last segment    *)
(* raises; the elif of line 516 is never reached.  If it were, line 532    *)
(* reads the name data, which do_DELETE never binds (the handler does not  *)
(* read the request body), and the branch would raise there.               *)
(***************************************************************************)
Digits == <<"1", "2", "3", "4", "5", "6", "7", "8", "9">>

\* int(segment): 0 stands for the ValueError
ParseInt(segment) ==
  IF \E n \in DOMAIN Digits : Digits[n] = segment
    THEN CHOOSE n \in DOMAIN Digits : Digits[n] = segment
    ELSE 0

RoomPath(room_id) == <<"rooms", Digits[room_id]>>

FinishGamePath(room_id) == <<"rooms", Digits[room_id], "finish-game">>

TournamentPath(tournament_id) == <<"tournament", Digits[tournament_id]>>

InternalError ==
  /\ response' = Resp(500, "internal_error")
  /\ UNCHANGED <<players_db, rooms_db, room_counter, tournaments_db, tournament_games,
                 tournament_counter, current_tournament, games_played, call>>

do_DELETE(path) ==
  IF path[1] = "rooms" /\ Len(path) > 1
    THEN IF ParseInt(path[Len(path)]) = 0
           THEN InternalError
           ELSE DeleteRoom(ParseInt(path[Len(path)]))
    ELSE IF path[1] = "rooms" /\ path[Len(path)] = "finish-game"
      THEN IF ParseInt(path[Len(path) - 1]) \notin DOMAIN rooms_db
             THEN /\ response' = Resp(404, "room_not_found")
                  /\ UNCHANGED <<players_db, rooms_db, room_counter, tournaments_db,
                                 tournament_games, tournament_counter,
                                 current_tournament, games_played, call>>
             ELSE IF ~ValidRosterSize(rooms_db[ParseInt(path[Len(path) - 1])])
               THEN /\ response' = Resp(400, "invalid_roster")
                    /\ UNCHANGED <<players_db, rooms_db, room_counter, tournaments_db,
                                   tournament_games, tournament_counter,
                                   current_tournament, games_played, call>>
               ELSE InternalError
      ELSE IF path = <<"tournament", "start">>
        THEN StartTournament
        ELSE IF path = <<"tournament", "end">>
          THEN EndTournament
          ELSE IF path[1] = "tournament"
            THEN IF ParseInt(path[Len(path)]) = 0
                   THEN InternalError
                   ELSE GetTournament(ParseInt(path[Len(path)]))
            ELSE /\ response' = Resp(404, "endpoint_not_found")
                 /\ UNCHANGED <<players_db, rooms_db, room_counter, tournaments_db,
                                tournament_games, tournament_counter,
                                current_tournament, games_played, call>>

(***************************************************************************)
(* The rosters of the finish-game requests: the members split in two by    *)
(* join order, or the creator against one other player id.                 *)
(***************************************************************************)
FirstHalf(s) == SubSeq(s, 1, Len(s) \div 2)

SecondHalf(s) == SubSeq(s, Len(s) \div 2 + 1, Len(s))

SplitRosters(room_id) ==
  IF room_id \in DOMAIN rooms_db
    THEN {<<FirstHalf(MemberIds(rooms_db[room_id])), SecondHalf(MemberIds(rooms_db[room_id]))>>}
    ELSE {<< <<1>>, <<2>> >>}

RosterPairs(room_id) ==
  SplitRosters(room_id) \cup
    (IF room_id \in DOMAIN rooms_db
       THEN {<< <<rooms_db[room_id].creator_id>>, <<q>> >> :
               q \in PlayerIds \ {rooms_db[room_id].creator_id}}
       ELSE {})

(***************************************************************************)
(* The server handles one request at a time: a handler builds its response *)
(* and its last statement writes it to the connection.                     *)
(***************************************************************************)
Reply ==
  /\ ~Idle
  /\ response' = NoResponse
  /\ call' = NoCall
  /\ UNCHANGED <<players_db, rooms_db, room_counter, tournaments_db, tournament_games,
                 tournament_counter, current_tournament, games_played>>

(***************************************************************************)
(* Spec: every handler; player 1 creates the rooms, with room for 2 or 4.  *)
(***************************************************************************)
Next ==
  \/ \E p \in PlayerIds : Idle /\ GetPlayer(p)
  \/ \E r \in RoomIds : Idle /\ GetRoom(r)
  \/ \E p \in PlayerIds : Idle /\ RegisterPlayer(p, "Anna")
  \/ \E m \in {2, 4} : Idle /\ CreateRoom(1, m)
  \/ \E r \in RoomIds, p \in PlayerIds : Idle /\ JoinRoom(r, p, DefaultFirstName)
  \/ \E r \in RoomIds, p \in PlayerIds : Idle /\ LeaveRoom(r, p)
  \/ \E r \in RoomIds : Idle /\ DeleteRoom(r)
  \/ \E r \in RoomIds : \E t \in RosterPairs(r), s \in ScorePairs :
       Idle /\ FinishGame(r, ScoreData(t[1], t[2], s[1], s[2]))
  \/ Idle /\ tournament_counter < MaxTournaments /\ StartTournament
  \/ Idle /\ EndTournament
  \/ \E t \in 1..(MaxTournaments + 1) : Idle /\ GetTournament(t)
  \/ Reply

Spec == Init /\ [][Next]_vars

(***************************************************************************)
(* SpecRooms: the room registry and the player store, players 1 and 2      *)
(* creating, every player joining and leaving, with every first_name and   *)
(* max_players.                                                            *)
(***************************************************************************)
Creators == {1, 2}

NextRooms ==
  \/ \E p \in PlayerIds : Idle /\ GetPlayer(p)
  \/ \E r \in RoomIds : Idle /\ GetRoom(r)
  \/ \E p \in PlayerIds, n \in FirstNames : Idle /\ RegisterPlayer(p, n)
  \/ \E p \in Creators, m \in MaxPlayersInputs : Idle /\ CreateRoom(p, m)
  \/ Idle /\ CreateRoomWithoutCreator
  \/ \E p \in Creators : Idle /\ CreateRoomWithoutName(p)
  \/ \E r \in RoomIds, p \in PlayerIds, n \in FirstNames : Idle /\ JoinRoom(r, p, n)
  \/ \E r \in RoomIds, p \in PlayerIds : Idle /\ LeaveRoom(r, p)
  \/ \E r \in RoomIds : Idle /\ DeleteRoom(r)
  \/ Reply

SpecRooms == Init /\ [][NextRooms]_vars

(***************************************************************************)
(* SpecDoubles: player 1 opens a room for four, players 2, 3 and 4 join in *)
(* any order, and the game is finished with the members split by join      *)
(* order, inside or outside a tournament; player records are read.         *)
(***************************************************************************)
FourPlayers == {1, 2, 3, 4}

NextDoubles ==
  \/ \E p \in FourPlayers : Idle /\ GetPlayer(p)
  \/ Idle /\ CreateRoom(1, 4)
  \/ \E r \in RoomIds, p \in {2, 3, 4} : Idle /\ JoinRoom(r, p, DefaultFirstName)
  \/ \E r \in RoomIds : \E t \in SplitRosters(r), s \in ScorePairs :
       Idle /\ FinishGame(r, ScoreData(t[1], t[2], s[1], s[2]))
  \/ Idle /\ tournament_counter < MaxTournaments /\ StartTournament
  \/ Idle /\ EndTournament
  \/ Reply

SpecDoubles == Init /\ [][NextDoubles]_vars

(***************************************************************************)
(* SpecMembers: players 1 and 2 open rooms for four, four players join and *)
(* leave.                                                                  *)
(***************************************************************************)

NextMembers ==
  \/ \E c \in Creators : Idle /\ CreateRoom(c, 4)
  \/ \E r \in RoomIds, p \in FourPlayers : Idle /\ JoinRoom(r, p, DefaultFirstName)
  \/ \E r \in RoomIds, p \in FourPlayers : Idle /\ LeaveRoom(r, p)
  \/ Reply

SpecMembers == Init /\ [][NextMembers]_vars

(***************************************************************************)
(* SpecDelete: players 1 and 2 open rooms for two, games are finished, a   *)
(* tournament is started, rooms are removed by DELETE /rooms/{id}.         *)
(***************************************************************************)
NextDelete ==
  \/ \E c \in Creators : Idle /\ CreateRoom(c, 2)
  \/ \E r \in RoomIds, p \in PlayerIds : Idle /\ JoinRoom(r, p, DefaultFirstName)
  \/ \E r \in RoomIds : \E t \in SplitRosters(r), s \in ScorePairs :
       Idle /\ FinishGame(r, ScoreData(t[1], t[2], s[1], s[2]))
  \/ Idle /\ tournament_counter < MaxTournaments /\ StartTournament
  \/ \E r \in RoomIds : Idle /\ do_DELETE(RoomPath(r))
  \/ Reply

SpecDelete == Init /\ [][NextDelete]_vars

(***************************************************************************)
(* SpecTournaments: tournaments are started, ended and read through        *)
(* do_DELETE, also while one is active; player 1 opens a room for 2 or 4,  *)
(* players join it and its game is finished.                               *)
(***************************************************************************)
TournamentIds == 1..(MaxStarts + 1)

NextTournaments ==
  \/ Idle /\ tournament_counter < MaxStarts /\ do_DELETE(<<"tournament", "start">>)
  \/ Idle /\ do_DELETE(<<"tournament", "end">>)
  \/ \E t \in TournamentIds : Idle /\ do_DELETE(TournamentPath(t))
  \/ \E m \in {2, 4} : Idle /\ CreateRoom(1, m)
  \/ \E r \in RoomIds, p \in FourPlayers : Idle /\ JoinRoom(r, p, DefaultFirstName)
  \/ \E r \in RoomIds : \E t \in SplitRosters(r), s \in ScorePairs :
       Idle /\ FinishGame(r, ScoreData(t[1], t[2], s[1], s[2]))
  \/ Reply

SpecTournaments == Init /\ [][NextTournaments]_vars

(***************************************************************************)
(* SpecLogs: tournaments are started and ended, also while one is active;  *)
(* player 1 opens rooms for two, player 2 registers, joins and leaves, the  *)
(* game is finished and rooms are removed.                                 *)
(***************************************************************************)
NextLogs ==
  \/ Idle /\ tournament_counter < MaxStarts /\ StartTournament
  \/ Idle /\ EndTournament
  \/ Idle /\ RegisterPlayer(2, "Anna")
  \/ Idle /\ CreateRoom(1, 2)
  \/ \E r \in RoomIds, p \in {1, 2} : Idle /\ JoinRoom(r, p, DefaultFirstName)
  \/ \E r \in RoomIds, p \in {1, 2} : Idle /\ LeaveRoom(r, p)
  \/ \E r \in RoomIds : Idle /\ DeleteRoom(r)
  \/ \E r \in RoomIds : \E t \in SplitRosters(r), s \in ScorePairs :
       Idle /\ FinishGame(r, ScoreData(t[1], t[2], s[1], s[2]))
  \/ Reply

SpecLogs == Init /\ [][NextLogs]_vars

(***************************************************************************)
(* SpecTeamRating: calculate_team_rating called on every list of up to two *)
(* ratings drawn from RatingInputs, with either flag; call holds the       *)
(* arguments and the value returned.                                       *)
(***************************************************************************)
RatingInputs == {0 - 1501, 0, 1, 1499, 1500, 1501, 1600, 47278588}

Teams == {<<>>} \cup {<<a>> : a \in RatingInputs} \cup {<<a, b>> : a, b \in RatingInputs}

TeamRating(players, is_winner) ==
  /\ call' = [called |-> TRUE, players |-> players, is_winner |-> is_winner,
              result |-> calculate_team_rating(players, is_winner)]
  /\ UNCHANGED <<players_db, rooms_db, room_counter, tournaments_db, tournament_games,
                 tournament_counter, current_tournament, response, games_played>>

NextTeamRating == \E players \in Teams, is_winner \in BOOLEAN : TeamRating(players, is_winner)

SpecTeamRating == Init /\ [][NextTeamRating]_vars

(***************************************************************************)
(* SpecHTTP: the requests as the handlers dispatch them; every DELETE      *)
(* request goes through do_DELETE.                                         *)
(***************************************************************************)
NextHTTP ==
  \/ \E m \in {2, 4} : Idle /\ CreateRoom(1, m)
  \/ \E r \in RoomIds, p \in PlayerIds : Idle /\ JoinRoom(r, p, DefaultFirstName)
  \/ \E r \in RoomIds, p \in PlayerIds : Idle /\ LeaveRoom(r, p)
  \/ \E r \in RoomIds : Idle /\ do_DELETE(RoomPath(r))
  \/ \E r \in RoomIds : Idle /\ do_DELETE(FinishGamePath(r))
  \/ Idle /\ tournament_counter < MaxTournaments /\ do_DELETE(<<"tournament", "start">>)
  \/ Idle /\ do_DELETE(<<"tournament", "end">>)
  \/ \E t \in 1..(MaxTournaments + 1) : Idle /\ do_DELETE(TournamentPath(t))
  \/ Reply

SpecHTTP == Init /\ [][NextHTTP]_vars

(***************************************************************************)
(* SpecResolve: calculate_rating_changes on every pair of rosters of up to *)
(* two ids, an id repeated or on both sides included, over every set of    *)
(* registered players.                                                     *)
(***************************************************************************)
Rosters ==
  {<<>>} \cup {<<a>> : a \in PlayerIds} \cup {<<a, b>> : a, b \in PlayerIds}

NextResolve ==
  \/ \E p \in PlayerIds : Idle /\ RegisterPlayer(p, "Anna")
  \/ \E t1, t2 \in Rosters, s \in ScorePairs :
       Idle /\ Resolve(ScoreData(t1, t2, s[1], s[2]))
  \/ Reply

SpecResolve == Init /\ [][NextResolve]_vars

(***************************************************************************)
(* Properties                                                              *)
(***************************************************************************)
\* a room of the registry whose game has not been finished
Open(room_id) == room_id \in DOMAIN rooms_db /\ ~rooms_db[room_id].game_finished

Finished(room_id) == room_id \in DOMAIN rooms_db /\ rooms_db[room_id].game_finished

\* the ids a roster names that have a player record
Known(db, roster) == {roster[i] : i \in DOMAIN roster} \cap DOMAIN db

\* C1: FinishGame on an Open room with exactly 2 or 4 members, the members
\* split into the two rosters, succeeds: the room becomes Finished, holds the
\* score, and the rating-change report has one entry per member.
C1_FinishGameSucceeds ==
  [][\A r \in RoomIds : \A t \in SplitRosters(r), s \in ScorePairs :
       (/\ Idle
        /\ Open(r)
        /\ ValidRosterSize(rooms_db[r])
        /\ FinishGame(r, ScoreData(t[1], t[2], s[1], s[2])))
       => (/\ response'.kind = "game_finished"
           /\ r \in DOMAIN rooms_db'
           /\ rooms_db'[r].game_finished
           /\ rooms_db'[r].final_score = <<s[1], s[2]>>
           /\ DOMAIN rooms_db'[r].rating_changes =
                {MemberIds(rooms_db[r])[i] : i \in DOMAIN rooms_db[r].members})
    ]_vars

\* a finish-game request on a full room of four was handled
C1_DoublesGamePlayed ==
  /\ call.called
  /\ Len(call.team1) = 2
  /\ Len(call.team2) = 2

C4_EachPlayerRatedOnce ==
  (call.called /\ ~call.raised)
  => \A p \in Known(call.before, call.team1) \cup Known(call.before, call.team2) :
       /\ p \in DOMAIN call.writes
       /\ call.writes[p] = 1
       /\ p \in DOMAIN call.changes
       /\ call.changes[p].old_rating = call.before[p].rating
       /\ players_db[p].rating = call.changes[p].new_rating

\* C5: a finish-game request on a room whose member count is neither 2 nor 4
\* fails with the roster-size error and changes no room, rating or tournament
\* log.
C5_InvalidRosterRejected ==
  [][\A r \in RoomIds :
       (/\ Idle
        /\ r \in DOMAIN rooms_db
        /\ Len(rooms_db[r].members) \notin {2, 4}
        /\ do_DELETE(FinishGamePath(r)))
       => (/\ response' = Resp(400, "invalid_roster")
           /\ UNCHANGED <<players_db, rooms_db, tournament_games, tournaments_db,
                          current_tournament>>)
    ]_vars

\* C6: no creator has two Open rooms, and a Create by a creator who has an Open
\* room fails with the duplicate-room error and leaves the registry, the room
\* counter and the player store unchanged.
C6_OneOpenRoomPerCreator ==
  /\ [](\A c \in PlayerIds :
          Cardinality({r \in DOMAIN rooms_db :
                         rooms_db[r].creator_id = c /\ Open(r)}) <= 1)
  /\ [][\A c \in PlayerIds, m \in MaxPlayersInputs :
          (/\ Idle
           /\ \E r \in DOMAIN rooms_db : rooms_db[r].creator_id = c /\ Open(r)
           /\ CreateRoom(c, m))
          => (/\ response' = Resp(400, "duplicate_room")
              /\ UNCHANGED <<rooms_db, room_counter, players_db>>)
       ]_vars

\* a Create was refused as a duplicate while its creator's room is Open
C6_DuplicateRefused ==
  /\ response.kind = "duplicate_room"
  /\ \E r \in DOMAIN rooms_db : Open(r)

C8_MembersWithinMax ==
  \A r \in DOMAIN rooms_db : Len(rooms_db[r].members) <= rooms_db[r].max_players

\* C9: a Join by a non-member on a room with exactly max_players members fails
\* with the room-full error, leaves the room's members and member_count
\* unchanged, and creates or updates no player record.
C9_FullRoomRefusesJoin ==
  [][\A r \in RoomIds, p \in PlayerIds, n \in FirstNames :
       (/\ Idle
        /\ r \in DOMAIN rooms_db
        /\ \A i \in DOMAIN rooms_db[r].members : rooms_db[r].members[i].player # p
        /\ Len(rooms_db[r].members) = rooms_db[r].max_players
        /\ JoinRoom(r, p, n))
       => (/\ response' = Resp(400, "room_full")
           /\ rooms_db' = rooms_db
           /\ players_db' = players_db)
    ]_vars

\* a Join was refused as full while every room has exactly max_players members
C9_FullRoomRefused ==
  /\ response.kind = "room_full"
  /\ DOMAIN rooms_db # {}
  /\ \A r \in DOMAIN rooms_db : Len(rooms_db[r].members) = rooms_db[r].max_players

\* C10: a Join by a player who is already a member is not an error and leaves
\* the room and the player store unchanged, so no player is twice in a room.
C10_JoinIsIdempotent ==
  /\ [](\A r \in DOMAIN rooms_db : \A i, j \in DOMAIN rooms_db[r].members :
          i # j => rooms_db[r].members[i].player # rooms_db[r].members[j].player)
  /\ [][\A r \in RoomIds, p \in PlayerIds, n \in FirstNames :
          (/\ Idle
           /\ r \in DOMAIN rooms_db
           /\ \E i \in DOMAIN rooms_db[r].members : rooms_db[r].members[i].player = p
           /\ JoinRoom(r, p, n))
          => (/\ response' = Resp(200, "already_joined")
              /\ rooms_db' = rooms_db
              /\ players_db' = players_db)
       ]_vars

\* a member's second Join was answered with the room as it is
C10_RepeatedJoinAnswered ==
  /\ response.kind = "already_joined"
  /\ response.status = 200

\* C11: a Leave by a player who is not a member of the existing room fails
\* with the not-a-member error and leaves the registry, that room and its
\* member list unchanged.
C11_NonMemberLeaveRejected ==
  [][\A r \in RoomIds, p \in PlayerIds :
       (/\ Idle
        /\ r \in DOMAIN rooms_db
        /\ \A i \in DOMAIN rooms_db[r].members : rooms_db[r].members[i].player # p
        /\ LeaveRoom(r, p))
       => (/\ response' = Resp(400, "not_a_member")
           /\ rooms_db' = rooms_db
           /\ players_db' = players_db)
    ]_vars

\* a Leave was refused while the room it named is in the registry
C11_NonMemberRefused ==
  /\ response.kind = "not_a_member"
  /\ response.status = 400
  /\ DOMAIN rooms_db # {}

\* C12: when the creator leaves, the room is removed from the registry
\* whatever the number of members left, every other room stays as it is, and
\* the reported affected ids are exactly the ids of all other members.
C12_CreatorLeaveDisbands ==
  [][\A r \in RoomIds, p \in FourPlayers :
       (/\ Idle
        /\ r \in DOMAIN rooms_db
        /\ rooms_db[r].creator_id = p
        /\ \E i \in DOMAIN rooms_db[r].members : rooms_db[r].members[i].player = p
        /\ LeaveRoom(r, p))
       => (/\ DOMAIN rooms_db' = DOMAIN rooms_db \ {r}
           /\ \A q \in DOMAIN rooms_db' : rooms_db'[q] = rooms_db[q]
           /\ response'.kind = "room_disbanded"
           /\ Len(response'.affected_members) = Len(rooms_db[r].members) - 1
           /\ {response'.affected_members[i] : i \in DOMAIN response'.affected_members}
                = {rooms_db[r].members[i].player : i \in DOMAIN rooms_db[r].members} \ {p})
    ]_vars

\* the creator of a room of four left and three ids were reported
C12_ThreeAffected ==
  /\ response.kind = "room_disbanded"
  /\ Len(response.affected_members) = 3

\* C13: when a member who is not the creator leaves, exactly that member's
\* entry is removed, the other entries stay as they are and in join order, the
\* room stays in the registry under its id, unfinished as before, and no other
\* room, no player record and not the room counter changes.
C13_MemberLeaveRemovesOneEntry ==
  [][\A r \in RoomIds, p \in FourPlayers :
       (/\ Idle
        /\ r \in DOMAIN rooms_db
        /\ rooms_db[r].creator_id # p
        /\ \E i \in DOMAIN rooms_db[r].members : rooms_db[r].members[i].player = p
        /\ LeaveRoom(r, p))
       => LET kept == SelectSeq(rooms_db[r].members, LAMBDA m : m.player # p) IN
          /\ Len(kept) = Len(rooms_db[r].members) - 1
          /\ rooms_db' = [rooms_db EXCEPT ![r] =
                            [rooms_db[r] EXCEPT !.members = kept,
                                                !.member_count = Len(kept)]]
          /\ Open(r)'
          /\ players_db' = players_db
          /\ room_counter' = room_counter
          /\ response'.kind = "left"
    ]_vars

\* a member left from the middle of a room of four: the entries with ids
\* 1, 3 and 4 stay, in that order
C13_MiddleMemberLeft ==
  /\ response.kind = "left"
  /\ \E r \in DOMAIN rooms_db :
       /\ Len(rooms_db[r].members) = 3
       /\ rooms_db[r].members[1].is_leader
       /\ rooms_db[r].members[2].id = 3
       /\ rooms_db[r].members[3].id = 4

\* C14: every room in the registry has a member, at most one of its members
\* has the is_leader flag, and that member is the room's creator.
C14_OneLeaderTheCreator ==
  \A r \in DOMAIN rooms_db :
    /\ Len(rooms_db[r].members) >= 1
    /\ \A i, j \in DOMAIN rooms_db[r].members :
         (rooms_db[r].members[i].is_leader /\ rooms_db[r].members[j].is_leader) => i = j
    /\ \A i \in DOMAIN rooms_db[r].members :
         rooms_db[r].members[i].is_leader
           => rooms_db[r].members[i].player = rooms_db[r].creator_id

\* a member left a room that still holds its leader and another member
C14_LeaderAmongMembers ==
  /\ response.kind = "left"
  /\ \E r \in DOMAIN rooms_db :
       /\ Len(rooms_db[r].members) >= 2
       /\ \E i \in DOMAIN rooms_db[r].members : rooms_db[r].members[i].is_leader

\* C15: a room's id is its key in the registry and below the room counter;
\* the counter never goes down; a room enters the registry only under the
\* counter's value, which is then raised by one, so its id is above every id
\* assigned before, removed rooms included; a failed Create leaves the
\* counter as it is.
C15_RoomIdsNeverReused ==
  /\ [](\A r \in DOMAIN rooms_db : rooms_db[r].id = r /\ r < room_counter)
  /\ [][/\ room_counter' >= room_counter
        /\ DOMAIN rooms_db' \ DOMAIN rooms_db \subseteq {room_counter}
        /\ (DOMAIN rooms_db' \ DOMAIN rooms_db # {}) <=> (room_counter' = room_counter + 1)
        /\ (room_counter' # room_counter) <=> (response'.kind = "room_created")
       ]_vars

\* room 1 is gone and the next Create made room 2
C15_SecondRoomAfterRemoval ==
  /\ response.kind = "room_created"
  /\ DOMAIN rooms_db = {2}
  /\ room_counter = 3

\* C16: DELETE /rooms/{id} of an existing room, finished or not, removes that
\* room from the registry and changes no other room, no player record, no
\* tournament, no tournament log and not the room counter; for an unknown id
\* it answers not-found and changes nothing.
C16_DeleteRemovesOnlyTheRoom ==
  [][\A r \in RoomIds :
       (Idle /\ do_DELETE(RoomPath(r)))
       => (/\ IF r \in DOMAIN rooms_db
                THEN /\ rooms_db' = [q \in DOMAIN rooms_db \ {r} |-> rooms_db[q]]
                     /\ response' = Resp(200, "room_deleted")
                ELSE /\ rooms_db' = rooms_db
                     /\ response' = Resp(404, "room_not_found")
           /\ UNCHANGED <<players_db, room_counter, tournaments_db, tournament_games,
                          tournament_counter, current_tournament>>)
    ]_vars

\* room 1 was removed after its game was finished, and room 2 is still there
C16_FinishedRoomDeleted ==
  /\ response.kind = "room_deleted"
  /\ DOMAIN rooms_db = {2}
  /\ ~rooms_db[2].game_finished
  /\ games_played = 1
  /\ \E p \in DOMAIN players_db : players_db[p].rating # DefaultRating

\* C17: starting a tournament while one is active answers a
\* tournament-already-active error and changes nothing: the current tournament
\* stays current, no new id is assigned, no tournament record or log is created.
C17_StartWhileActiveRefused ==
  [][(Idle /\ current_tournament # NoTournament /\ do_DELETE(<<"tournament", "start">>))
       => (/\ response'.kind = "tournament_already_active"
           /\ UNCHANGED <<tournaments_db, tournament_games, tournament_counter,
                          current_tournament>>)
    ]_vars

\* a second tournament was started while the first was the current one
C17_SecondStarted ==
  /\ response.kind = "tournament_started"
  /\ response.tournament_id = 2
  /\ current_tournament = 2
  /\ tournaments_db[1].status = "active"

\* C18: after any sequence of start, end and FinishGame, at most one
\* tournament has status active, that tournament is the current one, and
\* every tournament that is not the current one has status finished.
C18_OneActiveTournament ==
  /\ Cardinality({t \in DOMAIN tournaments_db : tournaments_db[t].status = "active"}) <= 1
  /\ \A t \in DOMAIN tournaments_db :
       /\ tournaments_db[t].status = "active" => t = current_tournament
       /\ t # current_tournament => tournaments_db[t].status = "finished"

\* tournament 2 was ended, no tournament is current, tournament 1 is still active
C18_ActiveButNotCurrent ==
  /\ response.kind = "tournament_ended"
  /\ current_tournament = NoTournament
  /\ tournaments_db[1].status = "active"
  /\ tournaments_db[2].status = "finished"

\* C19: ending a tournament when none is active answers a no-active-tournament
\* error and leaves the tournament records, the logs, the tournament counter
\* and the current pointer unchanged; when one is active, end sets its status
\* to finished, clears the current pointer and returns its id, and changes no
\* other record, no log and not the counter.
C19_EndTournament ==
  [][(Idle /\ do_DELETE(<<"tournament", "end">>))
       => IF current_tournament = NoTournament
            THEN /\ response' = Resp(200, "no_active_tournament")
                 /\ UNCHANGED <<tournaments_db, tournament_games, tournament_counter,
                                current_tournament>>
            ELSE /\ DOMAIN tournaments_db' = DOMAIN tournaments_db
                 /\ tournaments_db'[current_tournament].status = "finished"
                 /\ \A t \in DOMAIN tournaments_db \ {current_tournament} :
                      tournaments_db'[t] = tournaments_db[t]
                 /\ current_tournament' = NoTournament
                 /\ response'.kind = "tournament_ended"
                 /\ response'.tournament_id = current_tournament
                 /\ UNCHANGED <<tournament_games, tournament_counter>>
    ]_vars

\* an end was refused after the only tournament had been ended
C19_EndRefusedAfterEnd ==
  /\ response.kind = "no_active_tournament"
  /\ tournament_counter = 1
  /\ tournaments_db[1].status = "finished"
  /\ current_tournament = NoTournament

C22_SingleIsOwnRating ==
  (call.called /\ Len(call.players) = 1) => call.result = call.players[1]

\* the aggregate of a single player rated 1600 came out as 1500
C22_SingleRated1600 ==
  /\ call.called
  /\ call.players = <<1600>>
  /\ call.result = 1500

\* C23: for a team of two players rated a and b the aggregate is the average
\* plus 5% of it, truncated to an integer, that is 21*(a+b)/40 truncated
\* (the floor for non-negative ratings); for 1500 and 1600 it is 1627; it does
\* not depend on the order of the two players or on the won flag.
C23_PairAggregate ==
  (call.called /\ Len(call.players) = 2) =>
    LET a == call.players[1]
        b == call.players[2]
    IN /\ a + b >= 0 => /\ 40 * call.result <= 21 * (a + b)
                         /\ 21 * (a + b) < 40 * (call.result + 1)
       /\ a + b < 0 => /\ 40 * call.result >= 21 * (a + b)
                        /\ 21 * (a + b) > 40 * (call.result - 1)
       /\ (a = 1500 /\ b = 1600) => call.result = 1627
       /\ call.result = calculate_team_rating(<<b, a>>, call.is_winner)
       /\ call.result = calculate_team_rating(<<a, b>>, ~call.is_winner)

\* the aggregate of 1501 and 1600, where the truncation cuts a fraction
C23_PairWithFraction ==
  /\ call.called
  /\ call.players = <<1501, 1600>>
  /\ call.result = 1628

\* C24: score1 > score2 makes team1 the winner, score2 > score1 makes team2
\* the winner, equal scores are a draw where no team is marked as winner;
\* every reported player carries its team number and its team's won flag,
\* and the outcome score fed to the rating update is 1 for a player of the
\* winning team, 0 for a player of the losing team and 0.5 for every player
\* on a draw (the keys of Glicko2Table carry twice the outcome score).
C24_Outcome(team1, team2, score1, score2, before, changes) ==
  LET known1 == KnownPlayers(before, team1)
      known2 == KnownPlayers(before, team2)
      ids1 == {known1[i] : i \in DOMAIN known1}
      ids2 == {known2[i] : i \in DOMAIN known2}
      team1_won == score1 > score2
      team2_won == score2 > score1
      twice1 == IF team1_won THEN 2 ELSE IF team2_won THEN 0 ELSE 1
      twice2 == IF team2_won THEN 2 ELSE IF team1_won THEN 0 ELSE 1
      against1 == calculate_team_rating(TeamRatings(before, known2), team2_won)
      against2 == calculate_team_rating(
                    [i \in DOMAIN known1 |-> changes[known1[i]].new_rating], team1_won)
  IN /\ DOMAIN changes = ids1 \cup ids2
     /\ \A p \in DOMAIN changes :
          /\ changes[p].team \in {1, 2}
          /\ changes[p].team = 1 => p \in ids1 /\ changes[p].won = team1_won
          /\ changes[p].team = 2 => p \in ids2 /\ changes[p].won = team2_won
          /\ score1 = score2 => ~changes[p].won
     /\ \A p \in ids1 \ ids2 : changes[p].team = 1
     /\ \A p \in ids2 : changes[p].team = 2
     /\ (ids1 \cap ids2 = {} /\ ids1 # {} /\ ids2 # {}) =>
          /\ \A p \in ids1 :
               changes[p].new_rating = Glicko2Table[<<changes[p].old_rating, against1, twice1>>]
          /\ \A p \in ids2 :
               changes[p].new_rating = Glicko2Table[<<changes[p].old_rating, against2, twice2>>]

C24_OutcomeClassified ==
  [][(Idle /\ call'.called /\ ~call'.raised)
       => C24_Outcome(call'.team1, call'.team2, call'.score1, call'.score2,
                      players_db, call'.changes)
    ]_vars

\* a draw of two players against one was rated: nobody is marked as winner
C24_DrawRated ==
  /\ response.kind = "rating_changes"
  /\ call.team1 = <<1, 2>>
  /\ call.team2 = <<3>>
  /\ DOMAIN call.changes = {1, 2, 3}
  /\ \A p \in {1, 2, 3} : ~call.changes[p].won
  /\ call.changes[3].new_rating # call.changes[3].old_rating

\* C25: a roster id that is not in the player store is skipped silently: the
\* call does not fail because of it (it raises, returns and reports exactly
\* as the call with the unknown ids left out of the rosters), no player
\* record is created, the report has no entry for it, and every known
\* player of both rosters is processed.
C25_UnknownIdsSkipped ==
  [][(Idle /\ call'.called)
       => LET InStore(pid) == pid \in DOMAIN players_db
              without == calculate_rating_changes(players_db,
                           ScoreData(SelectSeq(call'.team1, InStore),
                                     SelectSeq(call'.team2, InStore),
                                     call'.score1, call'.score2))
          IN /\ DOMAIN players_db' = DOMAIN players_db
             /\ call'.raised = without.raised
             /\ players_db' = without.db
             /\ ~call'.raised =>
                  /\ response'.kind = "rating_changes"
                  /\ call'.changes = without.changes
                  /\ DOMAIN call'.changes =
                       Known(players_db, call'.team1) \cup Known(players_db, call'.team2)
    ]_vars

\* player 3 is not registered and leads team1: players 1 and 2 were rated
C25_UnknownFirstInRoster ==
  /\ response.kind = "rating_changes"
  /\ call.team1 = <<3, 1>>
  /\ call.team2 = <<2>>
  /\ DOMAIN players_db = {1, 2}
  /\ DOMAIN call.changes = {1, 2}
  /\ call.changes[1].new_rating # call.changes[1].old_rating

(***************************************************************************)
(* SpecRematch: calculate_rating_changes called up to MaxRematches times   *)
(* on rosters of at most one id, so that a side is empty or unknown when   *)
(* the players of the other side have been rated before.                   *)
(***************************************************************************)
SingleRosters == {<<>>} \cup {<<a>> : a \in PlayerIds}

NextRematch ==
  \/ \E p \in PlayerIds : Idle /\ RegisterPlayer(p, "Anna")
  \/ \E t1, t2 \in SingleRosters, s \in ScorePairs :
       Idle /\ ResolveWithin(ScoreData(t1, t2, s[1], s[2]), MaxRematches)
  \/ Reply

SpecRematch == Init /\ [][NextRematch]_vars

\* C26: the rating update with no results returns the rating it was given;
\* so when the opposing roster is empty or has only unknown ids, every known
\* player of the present side is reported with new_rating = old_rating and a
\* change of 0, its stored rating is unchanged, and the absent side has no
\* entry.
C26_EmptySide(own, other, team_no, changes) ==
  Known(players_db, other) = {} =>
    /\ ~call'.raised
    /\ players_db' = players_db
    /\ DOMAIN changes = Known(players_db, own)
    /\ \A p \in DOMAIN changes :
         /\ changes[p].old_rating = players_db[p].rating
         /\ changes[p].new_rating = changes[p].old_rating
         /\ changes[p].rating_change = 0
         /\ changes[p].team = team_no

C26_NoOpponentNoChange ==
  [][\A t1, t2 \in SingleRosters, s \in ScorePairs :
       (Idle /\ ResolveWithin(ScoreData(t1, t2, s[1], s[2]), MaxRematches))
       => /\ C26_EmptySide(t1, t2, 1, call'.changes)
          /\ C26_EmptySide(t2, t1, 2, call'.changes)
    ]_vars

\* player 1, rated 47278588 after a win, won against a player not registered
C26_RatedPlayerAlone ==
  /\ response.kind = "rating_changes"
  /\ games_played = 2
  /\ call.team1 = <<1>>
  /\ call.team2 = <<3>>
  /\ 3 \notin DOMAIN players_db
  /\ DOMAIN call.changes = {1}
  /\ call.changes[1].old_rating = 47278588
  /\ call.changes[1].new_rating = 47278588
  /\ call.changes[1].won

\* C27: with RD 350, volatility 0.06 and tau 0.5, when both teams have the
\* same aggregated rating, a game with a winner strictly increases the stored
\* rating of every player of the winning team and strictly decreases the
\* stored rating of every player of the losing team.
C27_WinUpLossDown ==
  [][\A r \in RoomIds : \A t \in SplitRosters(r), s \in ScorePairs :
       (/\ Idle
        /\ Open(r)
        /\ ValidRosterSize(rooms_db[r])
        /\ s[1] # s[2]
        /\ calculate_team_rating(TeamRatings(players_db, t[1]), s[1] > s[2])
             = calculate_team_rating(TeamRatings(players_db, t[2]), s[2] > s[1])
        /\ FinishGame(r, ScoreData(t[1], t[2], s[1], s[2])))
       => LET winners == IF s[1] > s[2] THEN t[1] ELSE t[2]
              losers == IF s[1] > s[2] THEN t[2] ELSE t[1]
          IN /\ \A i \in DOMAIN winners :
                  players_db'[winners[i]].rating > players_db[winners[i]].rating
             /\ \A i \in DOMAIN losers :
                  players_db'[losers[i]].rating < players_db[losers[i]].rating
    ]_vars

\* team1 won the doubles game: its players went up, the losers were not rated
C27_LosersNotRated ==
  /\ response.kind = "internal_error"
  /\ call.raised
  /\ call.team1 = <<1, 2>>
  /\ call.team2 = <<3, 4>>
  /\ players_db[1].rating > DefaultRating
  /\ players_db[2].rating > DefaultRating
  /\ players_db[3].rating = DefaultRating
  /\ players_db[4].rating = DefaultRating

PlayerRow(telegram_id, first_name) ==
  [id |-> Cardinality(DOMAIN players_db) + 1, telegram_id |-> telegram_id,
   first_name |-> first_name, rating |-> DefaultRating]

RoomMemberRow(player_id, is_leader) == [player_id |-> player_id, is_leader |-> is_leader]

RoomRow(id, creator_id, max_players) ==
  [id |-> id, creator_id |-> creator_id, max_players |-> max_players, is_active |-> TRUE,
   members |-> <<RoomMemberRow(creator_id, TRUE)>>]

create_or_get_player(telegram_id, first_name) ==
  /\ players_db' =
       IF telegram_id \in DOMAIN players_db
         THEN [players_db EXCEPT ![telegram_id].first_name = first_name]
         ELSE Put(players_db, telegram_id, PlayerRow(telegram_id, first_name))
  /\ response' = Resp(200, "player")
  /\ UNCHANGED <<rooms_db, room_counter, tournaments_db, tournament_games,
                 tournament_counter, current_tournament, games_played, call>>

create_room(creator_telegram_id, max_players) ==
  IF creator_telegram_id \notin DOMAIN players_db
    THEN /\ response' = Resp(500, "creator_not_found")
         /\ UNCHANGED <<players_db, rooms_db, room_counter, tournaments_db,
                        tournament_games, tournament_counter, current_tournament,
                        games_played, call>>
    ELSE /\ room_counter <= MaxRooms
         /\ rooms_db' = Put(rooms_db, room_counter,
                            RoomRow(room_counter, players_db[creator_telegram_id].id,
                                    max_players))
         /\ room_counter' = room_counter + 1
         /\ response' = Resp(200, "room_created")
         /\ UNCHANGED <<players_db, tournaments_db, tournament_games,
                        tournament_counter, current_tournament, games_played, call>>

get_room(room_id) ==
  /\ response' = IF room_id \in DOMAIN rooms_db
                   THEN Resp(200, "room") ELSE Resp(500, "room_not_found")
  /\ UNCHANGED <<players_db, rooms_db, room_counter, tournaments_db, tournament_games,
                 tournament_counter, current_tournament, games_played, call>>

delete_room(room_id) ==
  /\ IF room_id \in DOMAIN rooms_db
       THEN /\ rooms_db' = Del(rooms_db, room_id)
            /\ response' = Resp(200, "room_deleted")
       ELSE /\ rooms_db' = rooms_db
            /\ response' = Resp(500, "room_not_found")
  /\ UNCHANGED <<players_db, room_counter, tournaments_db, tournament_games,
                 tournament_counter, current_tournament, games_played, call>>

NextMain ==
  \/ \E p \in PlayerIds, n \in FirstNames : Idle /\ create_or_get_player(p, n)
  \/ \E p \in PlayerIds, m \in {2, 4} : Idle /\ create_room(p, m)
  \/ \E r \in RoomIds : Idle /\ get_room(r)
  \/ \E r \in RoomIds : Idle /\ delete_room(r)
  \/ Reply

SpecMain == Init /\ [][NextMain]_vars

\* C30: in the database-backed API a create_room by a creator who already
\* has an open room fails with a conflict and creates no second room and no
\* second leader membership, so that no two open rooms ever have the same
\* creator.
C30_MainOneOpenRoomPerCreator ==
  /\ [](\A r, q \in DOMAIN rooms_db :
          (/\ rooms_db[r].is_active
           /\ rooms_db[q].is_active
           /\ rooms_db[r].creator_id = rooms_db[q].creator_id) => r = q)
  /\ [][\A p \in PlayerIds, m \in {2, 4} :
          (/\ Idle
           /\ p \in DOMAIN players_db
           /\ \E r \in DOMAIN rooms_db :
                rooms_db[r].is_active /\ rooms_db[r].creator_id = players_db[p].id
           /\ create_room(p, m))
          => (/\ response'.status = 409
              /\ rooms_db' = rooms_db)
       ]_vars

\* the same creator holds two open rooms, each with its leader membership
C30_MainTwoRoomsOfOneCreator ==
  /\ response.kind = "room_created"
  /\ DOMAIN rooms_db = {1, 2}
  /\ rooms_db[1].is_active /\ rooms_db[2].is_active
  /\ rooms_db[1].creator_id = rooms_db[2].creator_id
  /\ rooms_db[1].members = <<RoomMemberRow(rooms_db[1].creator_id, TRUE)>>
  /\ rooms_db[2].members = rooms_db[1].members

\* C31: in one game the opponent rating fed to the update of every player, of
\* team 1 and of team 2 alike, is the aggregate of the opposing team's ratings
\* as stored before the game; so swapping team1 with team2 and score1 with
\* score2 gives every player the same new rating.
C31_Distinct(roster) == \A i, j \in DOMAIN roster : roster[i] = roster[j] => i = j

C31_RatedAgainstRatingsBefore(own, other, own_won, other_won, before, changes) ==
  \A i \in DOMAIN own :
    LET key == <<before[own[i]].rating,
                 calculate_team_rating(TeamRatings(before, other), other_won),
                 IF own_won THEN 2 ELSE IF other_won THEN 0 ELSE 1>>
    IN key \in DOMAIN Glicko2Table => changes[own[i]].new_rating = Glicko2Table[key]

C31_OpponentIsRatingBefore ==
  [][(/\ Idle
      /\ call'.called
      /\ ~call'.raised
      /\ C31_Distinct(call'.team1 \o call'.team2))
       => LET known1 == KnownPlayers(players_db, call'.team1)
              known2 == KnownPlayers(players_db, call'.team2)
              team1_won == call'.score1 > call'.score2
              team2_won == call'.score2 > call'.score1
              swapped == calculate_rating_changes(players_db,
                           ScoreData(call'.team2, call'.team1, call'.score2, call'.score1))
          IN /\ (known1 # <<>> /\ known2 # <<>>) =>
                  /\ C31_RatedAgainstRatingsBefore(known1, known2, team1_won, team2_won,
                                                   players_db, call'.changes)
                  /\ C31_RatedAgainstRatingsBefore(known2, known1, team2_won, team1_won,
                                                   players_db, call'.changes)
             /\ (swapped.listed /\ ~swapped.raised) =>
                  \A p \in DOMAIN call'.changes :
                    swapped.changes[p].new_rating = call'.changes[p].new_rating
    ]_vars

\* players 1 and 2 lost 18-21 to player 3, who was rated against their new
\* ratings and stays at 1500
C31_WinnerRatedAgainstNewRatings ==
  /\ response.kind = "rating_changes"
  /\ call.team1 = <<1, 2>>
  /\ call.team2 = <<3>>
  /\ call.score1 < call.score2
  /\ DOMAIN call.changes = {1, 2, 3}
  /\ call.changes[1].new_rating < call.changes[1].old_rating
  /\ call.changes[3].new_rating = call.changes[3].old_rating

C33_FinishGameDispatched ==
  [][\A r \in RoomIds :
       (Idle /\ do_DELETE(FinishGamePath(r)))
       => /\ r \in DOMAIN rooms_db => r \in DOMAIN rooms_db'
          /\ (r \in DOMAIN rooms_db /\ ValidRosterSize(rooms_db[r]))
               => response'.kind # "internal_error"
    ]_vars

\* a request was answered with an internal error while room 1 has two members,
\* no game was rated and the room is not finished
C33_FinishGameAnswered500 ==
  /\ response.kind = "internal_error"
  /\ 1 \in DOMAIN rooms_db
  /\ Len(rooms_db[1].members) = 2
  /\ ~rooms_db[1].game_finished
  /\ games_played = 0
  /\ ~call.called

\* C34: within one room the ids of the member entries are pairwise distinct
\* after any sequence of Join and Leave: a later joiner never receives the id
\* of a member who is still in the room.
C34_MemberEntryIdsDistinct ==
  \A r \in DOMAIN rooms_db :
    \A i, j \in DOMAIN rooms_db[r].members :
      rooms_db[r].members[i].id = rooms_db[r].members[j].id => i = j

\* the second of three members left and the next joiner got id 3, which the
\* third member still holds
C34_JoinerGotHeldId ==
  /\ response.kind = "joined"
  /\ 1 \in DOMAIN rooms_db
  /\ Len(rooms_db[1].members) = 3
  /\ rooms_db[1].members[1].id = 1
  /\ rooms_db[1].members[2].id = 3
  /\ rooms_db[1].members[3].id = 3
  /\ rooms_db[1].members[2].player # rooms_db[1].members[3].player

====
